---- MODULE Spec2Model ----
(***************************************************************************)
(* A model of the candidate lifecycle engine of GaroLabSniperBot:          *)
(*   - token_cache.py : TokenState, TokenCache and the module-level LOCK   *)
(*   - filters.py     : TokenFilter.apply_filters, rugcheck_score and      *)
(*                      holders_distribution_filter                        *)
(* The cache is exercised by two threads (an ingestion thread and a        *)
(* scheduler thread) calling the public methods of one TokenCache object.  *)
(***************************************************************************)
EXTENDS Integers, Sequences, FiniteSets, TLC

(***************************************************************************)
(* Bounds of the model.                                                    *)
(***************************************************************************)
\* clock samples taken second by second after the start: 1..MaxStep
MaxStep == 3
\* later clock samples, one shortly after each of the next MaxMinutes minutes
MaxMinutes == 1
\* largest retry_count found in a snapshot loaded from disk
MaxLoadedRetry == 1

\* most tokens in one batch of get_new_tokens_multi_source
MaxBatch == 3
\* iterations of main_loop followed
MaxCycles == 2

\* max_age of get_due_for_check is in minutes (max_age * 60)
SecondsPerMinute == 60

Addresses == {"a1", "a2"}
Threads == {"ingest", "sched"}

\* time.time() samples: 1..MaxStep, then 62, 122, ...
TimePoints ==
  (1..MaxStep) \cup {SecondsPerMinute * m + 2 : m \in 1..MaxMinutes}
\* the process starts during the first minute
BootTimes == 1..MaxStep

\* arguments the callers pass
Signals == {0, 1}
Intervals == {1, SecondsPerMinute}
MaxAges == {1}
Lifetimes == {1, SecondsPerMinute}

Free == "free"

\* the address has no record
Untracked == -1

VARIABLES
  now,       \* time.time()
  disk,      \* content of CACHE_FILE
  tokens,    \* TokenCache.tokens: address -> TokenState
  lock,      \* LOCK: Free or the thread that holds it
  th,        \* per thread: the call in progress
  ret,       \* per thread: what its last completed call returned
  passed_at, \* history: time of the latest passing outcome recorded per address
  applied,   \* history: per address in the cache, the calls of
             \* update_check that reached its record (those before the
             \* snapshot it was loaded from included); Untracked otherwise
  config,       \* filters.config
  token,        \* the token dict given to apply_filters
  filter_stats, \* TokenFilter.filter_stats
  af,           \* apply_filters: position, token_address, passed, rug_score,
                \* holder_pass and what it returned
  rug_resp,     \* rugcheck_score: the oracle's answer (resp / data)
  hf,           \* holders_distribution_filter: attempt, sleeps done, and the
                \* oracle's answers (supply_resp, holders_resp)
  calls,        \* oracle requests issued during the evaluation
  batch,        \* main_loop: new_tokens, as what evaluating each token does
  ml,           \* main_loop: position, index in the batch, tokens given to
                \* filter_token so far, iterations done
  tm,           \* TokenMonitor.run: position, the token in hand,
                \* pending_tokens, tokens, and what became of each token
  rd,           \* a call of get_due_for_check or get_ready_for_purge that
                \* iterates over TokenCache.tokens: position, arguments, the
                \* list built so far
  sw,           \* OrderRouter.execute_swap_with_retry: position, retries,
                \* slippage, and what the attempts did
  ds,           \* DataSource: last_processed_tokens and what
                \* get_new_tokens_multi_source has returned
  pt,           \* PositionTracker: tracked_positions and what became of
                \* each sell
  st            \* SimulatedTrader: positions and the calls that succeeded

cacheVars == <<now, disk, tokens, lock, th, ret, passed_at, applied>>
filterVars == <<config, token, filter_stats, af, rug_resp, hf, calls>>
tradeVars == <<sw, ds, pt, st>>
driverVars == <<batch, ml, tm, rd, tradeVars>>
vars == <<cacheVars, filterVars, driverVars>>

(***************************************************************************)
(* TokenState                                                              *)
(***************************************************************************)
\* TokenState.__init__: created_at or time.time()  (0 / None are falsy)
TokenStateInit(address, created_at, clock) ==
  [address |-> address,
   first_seen |-> IF created_at = 0 THEN clock ELSE created_at,
   last_checked |-> 0,
   retry_count |-> 0,
   promoted |-> FALSE,
   last_signal_strength |-> 0]

\* TokenState.to_dict
to_dict(self) ==
  [address |-> self.address,
   first_seen |-> self.first_seen,
   last_checked |-> self.last_checked,
   retry_count |-> self.retry_count,
   promoted |-> self.promoted,
   last_signal_strength |-> self.last_signal_strength]

\* dict.get(key, default)
DictGet(d, key, default) == IF key \in DOMAIN d THEN d[key] ELSE default

\* from_dict that forgets the promoted flag
from_dict_ForgetsPromoted(data, clock) ==
  [TokenStateInit(data["address"], data["first_seen"], clock) EXCEPT
     !.last_checked = DictGet(data, "last_checked", 0),
     !.retry_count = DictGet(data, "retry_count", 0),
     !.last_signal_strength = DictGet(data, "last_signal_strength", 0)]

\* TokenState.from_dict
from_dict(data, clock) ==
  [TokenStateInit(data["address"], data["first_seen"], clock) EXCEPT
     !.last_checked = DictGet(data, "last_checked", 0),
     !.retry_count = DictGet(data, "retry_count", 0),
     !.promoted = DictGet(data, "promoted", FALSE),
     !.last_signal_strength = DictGet(data, "last_signal_strength", 0)]

EmptyCache == [a \in {} |-> 0]

\* CACHE_FILE: absent, not parsable as JSON, or a JSON object
Absent == [kind |-> "absent", data |-> EmptyCache]
Corrupt == [kind |-> "corrupt", data |-> EmptyCache]
Json(d) == [kind |-> "json", data |-> d]

\* TokenCache.load_cache: an absent or unparsable file leaves tokens empty
load_cache(file, clock) ==
  IF file.kind # "json"
  THEN EmptyCache
  ELSE [k \in DOMAIN file.data |-> from_dict(file.data[k], clock)]

\* TokenCache.save_cache: what json.dump writes
dump_cache(toks) == Json([k \in DOMAIN toks |-> to_dict(toks[k])])

\* what a call returned: nothing yet, None, or a list (of tokens or addresses)
NoRet ==
  [kind |-> "no_return", op |-> "none", addr |-> "none",
   a1 |-> 0, a2 |-> 0, value |-> {}]
PyNone(op, a) ==
  [kind |-> "None", op |-> op, addr |-> a, a1 |-> 0, a2 |-> 0, value |-> {}]
PyList(op, a1, a2, v) ==
  [kind |-> "list", op |-> op, addr |-> "none",
   a1 |-> a1, a2 |-> a2, value |-> v]

(***************************************************************************)
(* Snapshots that may be on disk when the process starts.                  *)
(***************************************************************************)
SnapshotRecords(a, clock) ==
  {r \in [address : {a},
          first_seen : {t \in TimePoints : t <= clock},
          last_checked : {0} \cup {t \in TimePoints : t <= clock},
          retry_count : 0..MaxLoadedRetry,
          promoted : BOOLEAN,
          last_signal_strength : Signals] :
     \/ r.last_checked = 0 /\ r.retry_count = 0 /\ r.last_signal_strength = 0
     \/ r.last_checked >= r.first_seen /\ r.retry_count >= 1}

Snapshots(clock) ==
  {f \in UNION {[S -> UNION {SnapshotRecords(a, clock) : a \in S}] :
                  S \in SUBSET Addresses \ {{}}} :
     \A k \in DOMAIN f : f[k].address = k}

Files(clock) == {Absent, Corrupt} \cup {Json(f) : f \in Snapshots(clock)}

(***************************************************************************)
(* Reads                                                                   *)
(***************************************************************************)
\* TokenCache.get_due_for_check
get_due_for_check(max_age, interval) ==
  {k \in DOMAIN tokens :
     /\ now - tokens[k].last_checked >= interval
     /\ now - tokens[k].first_seen < max_age * SecondsPerMinute}

\* TokenCache.get_ready_for_purge
get_ready_for_purge(max_lifetime) ==
  {k \in DOMAIN tokens :
     /\ now - tokens[k].first_seen > max_lifetime
     /\ tokens[k].last_signal_strength < 1}


(***************************************************************************)
(* filters.py                                                              *)
(***************************************************************************)
\* largest holder list the oracle returns in the model
MaxHolders == 2

\* for attempt in range(3)
MaxAttempts == 3
\* evaluations one TokenFilter runs in the model
MaxEvals == 2

\* time.sleep(1)
RetryDelay == 1
\* holders_resp.value[:10]
TopN == 10
\* config.get("RUGCHECK_MIN_SCORE", 60)
DefaultMinScore == 60
\* len(token_address) < 32
MinAddressLen == 32
\* len(token_address) != 44
PubkeyLen == 44

PyNull == "None"

\* the strings of the model and what len(), strip() and truthiness make of them
Strings == {"", "  ", "Short31", "Addr43", "Addr44", "NotBase58_44"}
StrLen(str) ==
  CASE str = "" -> 0
    [] str = "  " -> 2
    [] str = "Short31" -> 31
    [] str = "Addr43" -> 43
    [] OTHER -> 44
Strip(str) == IF str = "  " THEN "" ELSE str
Truthy(str) == str \notin {PyNull, ""}
\* str.lower()
Lower(str) ==
  CASE str = "DANGER" -> "danger"
    [] str = "Warning" -> "warning"
    [] OTHER -> str

\* the configurations: MIN_LIQUIDITY_USD, MAX_FDV_USD, the RugCheck threshold
\* (60 when the key is not set), TOP_HOLDER_MAX_PERCENT, relaxed mode
Configs ==
  [MIN_LIQUIDITY_USD : {20000},
   MAX_FDV_USD : {10000000},
   RUGCHECK_MIN_SCORE : {0, DefaultMinScore},
   TOP_HOLDER_MAX_PERCENT : {5},
   SIMULATION_MODE_RELAXED_FILTERS : BOOLEAN]

\* the token dicts
Tokens ==
  [mint : {PyNull} \cup Strings,
   address : {PyNull, "Addr44"},
   liquidity_usd : {5000, 50000},
   fdv : {0, 300000, 20000000}]

\* answers of the RugCheck API: HTTP 404, another HTTP error status, a
\* timeout or connection error, a body that is not JSON, a JSON body that is
\* not an object, or a report object
NoReport(kind) ==
  [kind |-> kind, rugged |-> FALSE, result |-> "", mintAuthority |-> PyNull,
   freezeAuthority |-> PyNull, knownAccounts |-> 0]
RugReports ==
  [kind : {"ok"},
   rugged : BOOLEAN,
   result : {"", "safe", "Warning", "DANGER", "blacklisted"},
   mintAuthority : {PyNull, "null", "AuthKey"},
   freezeAuthority : {PyNull, "AuthKey"},
   knownAccounts : {0, 1}]
RugResponses ==
  {NoReport(k) : k \in {"404", "http_error", "timeout", "bad_json",
                        "not_object"}} \cup RugReports

\* answers of rpc_client.get_token_supply: an exception (of a transient kind,
\* as a timeout or rate limiting, or of a fatal kind, as an invalid request),
\* a response without .value, or a value whose amount string int() may or
\* may not parse
NoSupply(kind) == [kind |-> kind, amount |-> 0, parsable |-> FALSE]
SupplyResponses ==
  {NoSupply("raise"), NoSupply("raise_fatal"), NoSupply("no_value")} \cup
  [kind : {"ok"}, amount : {0, 1000000}, parsable : {TRUE}] \cup
  [kind : {"ok"}, amount : {0}, parsable : {FALSE}]

\* answers of rpc_client.get_token_largest_accounts: an exception, a
\* response without .value, a value of None, or a list of holders
HolderEntries ==
  [amount : {30000, 50000, 60000}, parsable : {TRUE}] \cup
  [amount : {0}, parsable : {FALSE}]
\* lists longer than TopN: small holders but for a large one, at the last
\* position read or at the first one not read
LongLists ==
  {[i \in 1..(TopN + 1) |->
      [amount |-> IF i = k THEN 60000 ELSE 30000, parsable |-> TRUE]] :
     k \in {TopN, TopN + 1}}
HolderLists ==
  UNION {[1..n -> HolderEntries] : n \in 0..MaxHolders} \cup LongLists
NoHolders(kind) == [kind |-> kind, value |-> <<>>]
HoldersResponses ==
  {NoHolders("raise"), NoHolders("raise_fatal"), NoHolders("no_value"),
   NoHolders("ok_none")} \cup
  {[kind |-> "ok", value |-> l] : l \in HolderLists}

\* the call raised an exception, of whatever kind
Raised(resp) == resp.kind \in {"raise", "raise_fatal"}

\* basic_filter that lets every liquidity through
basic_filter_NoFloor(tok) == tok.liquidity_usd >= 0

\* TokenFilter.basic_filter
basic_filter(tok) == ~(tok.liquidity_usd < config.MIN_LIQUIDITY_USD)

\* fdv_filter with a valuation of zero let through
fdv_filter_AllowsZero(tok) == ~(tok.fdv < 0 \/ tok.fdv > config.MAX_FDV_USD)

\* TokenFilter.fdv_filter
fdv_filter(tok) == ~(tok.fdv <= 0 \/ tok.fdv > config.MAX_FDV_USD)

Max(a, b) == IF a >= b THEN a ELSE b
Min(a, b) == IF a <= b THEN a ELSE b

\* rugcheck_score, lines 106-126: the score of a report object
rugcheck_report_score(data) ==
  IF data.rugged
  THEN 0
  ELSE LET r == Lower(data.result)
           s1 == 100 - (IF r \in {"blacklisted", "danger"} THEN 50
                        ELSE IF r = "warning" THEN 20 ELSE 0)
           s2 == s1 - (IF data.mintAuthority \notin {PyNull, "", "null"}
                       THEN 25 ELSE 0)
           s3 == s2 - (IF data.freezeAuthority \notin {PyNull, "", "null"}
                       THEN 25 ELSE 0)
           s4 == s3 - (IF data.knownAccounts > 0 THEN 30 ELSE 0)
       IN  Max(s4, 0)

\* rugcheck_score answering the best score when the request fails
rugcheck_score_FailOpen(resp) ==
  IF resp.kind = "ok" THEN rugcheck_report_score(resp) ELSE 100

\* rugcheck_score, lines 95-104: 404 and every exception of the request give 0
rugcheck_score(resp) ==
  IF resp.kind = "ok" THEN rugcheck_report_score(resp) ELSE 0

\* holders_distribution_filter, lines 153-165: the first TopN holders, an
\* entry whose amount does not parse is skipped with a warning
RECURSIVE holders_ok(_, _, _)
holders_ok(holders, total_amount, i) ==
  IF i > Min(Len(holders), TopN)
  THEN TRUE
  ELSE IF /\ holders[i].parsable
          /\ holders[i].amount * 100 >=
               config.TOP_HOLDER_MAX_PERCENT * total_amount
       THEN FALSE
       ELSE holders_ok(holders, total_amount, i + 1)

NoStats == [liquidity |-> 0, fdv |-> 0, rugcheck |-> 0, holders |-> 0]
NoCalls == [rug |-> 0, supply |-> 0, holders |-> 0]
\* stats0 keeps filter_stats as it was when the evaluation began, evals the
\* evaluations completed before it
AfStart ==
  [pc |-> "call", token_address |-> "", passed |-> TRUE, rug_score |-> 0,
   holder_pass |-> FALSE, verdict |-> "none", stats0 |-> NoStats,
   evals |-> 0]
HfStart ==
  [attempt |-> 0, sleeps |-> <<>>, supply_resp |-> NoSupply("none"),
   holders_resp |-> NoHolders("none")]

\* the filter state while the cache is exercised: no evaluation is running
FilterIdle ==
  /\ config \in {c \in Configs : c.RUGCHECK_MIN_SCORE = DefaultMinScore
                                 /\ ~c.SIMULATION_MODE_RELAXED_FILTERS}
  /\ token \in {k \in Tokens : k.mint = "Addr44" /\ k.address = PyNull
                               /\ k.liquidity_usd = 50000 /\ k.fdv = 300000}
  /\ filter_stats = NoStats
  /\ af = AfStart
  /\ rug_resp = NoReport("none")
  /\ hf = HfStart
  /\ calls = NoCalls

\* main_loop before its first iteration
MlStart == [pc |-> "fetch", i |-> 1, evaluated |-> {}, cycle |-> 0]
\* TokenMonitor.__init__: tokens and pending_tokens are empty
TmStart ==
  [pc |-> "pick", cur |-> "none", pending |-> <<>>, tokens |-> {},
   seen |-> {}, expired |-> {}, bought |-> {}]
\* no read of the cache is in progress
RdStart ==
  [pc |-> "idle", op |-> "none", a1 |-> 0, a2 |-> 0, t0 |-> 0, order |-> <<>>,
   i |-> 1, value |-> {}, snaps |-> {}, kind |-> "none"]
\* the mints bought and sold
Positions == {"p1", "p2"}
\* execute_swap_with_retry has not been called
SwStart ==
  [pc |-> "idle", max_retries |-> 0, retries |-> 0, slippage |-> 0,
   attempts |-> 0, used |-> {}, last |-> 0, result |-> "none", of |-> 0]
\* DataSource.__init__: last_processed_tokens is empty
DsStart ==
  [last_processed_tokens |-> {}, scan |-> <<>>, returned |-> <<>>,
   before |-> {}, calls |-> 0]
\* no sell_token call has returned
NoSell == [address |-> "none", success |-> FALSE]
\* PositionTracker.__init__: tracked_positions is empty
PtStart ==
  [pc |-> "idle", tracked_positions |-> <<>>, items |-> <<>>, i |-> 1,
   price |-> 0, replaced |-> {}, last |-> NoSell]
\* SimulatedTrader.__init__ without a positions file and without a tracker
StStart ==
  [positions |-> [a \in Positions |-> "absent"], tracker |-> FALSE,
   bought |-> [a \in Positions |-> 0],
   sold |-> [a \in Positions |-> 0],
   last |-> [op |-> "none", address |-> "none", success |-> FALSE],
   calls |-> 0]
TradeIdle ==
  /\ sw = SwStart
  /\ ds = DsStart
  /\ pt = PtStart
  /\ st = StStart

DriverIdle ==
  /\ batch = <<>>
  /\ ml = MlStart
  /\ tm = TmStart
  /\ rd = RdStart
  /\ TradeIdle

(***************************************************************************)
(* Threads                                                                 *)
(***************************************************************************)
\* The ingestion thread inserts; the scheduler thread also reads what is due,
\* records outcomes, promotes, purges and checkpoints.
OpsOf(t) ==
  IF t = "ingest"
  THEN {"add_token"}
  ELSE {"add_token", "update_check", "promote_to_cache", "remove_token",
        "save_cache", "get_due_for_check", "get_ready_for_purge"}

Idle == [pc |-> "idle", op |-> "none", addr |-> "none", sig |-> 0]

Frame(op, pc, a, s) == [pc |-> pc, op |-> op, addr |-> a, sig |-> s]

Init ==
  /\ now \in BootTimes
  /\ disk \in Files(now)
  /\ tokens = load_cache(disk, now)
  /\ lock = Free
  /\ th = [t \in Threads |-> Idle]
  /\ ret = [t \in Threads |-> NoRet]
  /\ passed_at = [a \in Addresses |->
                    IF a \in DOMAIN tokens /\ tokens[a].last_signal_strength >= 1
                    THEN tokens[a].last_checked ELSE 0]
  /\ applied = [a \in Addresses |->
                  IF a \in DOMAIN tokens THEN tokens[a].retry_count
                  ELSE Untracked]
  /\ FilterIdle
  /\ DriverIdle

\* the clock advances
Tick ==
  /\ \E t \in TimePoints : t > now /\ now' = t
  /\ UNCHANGED <<disk, tokens, lock, th, ret, passed_at, applied>>
  /\ UNCHANGED filterVars
  /\ UNCHANGED driverVars

\* a thread calls one of the locking methods and reaches its "with LOCK:"
Call(t) ==
  /\ th[t].pc = "idle"
  /\ \E op \in OpsOf(t) \ {"get_due_for_check", "get_ready_for_purge"} :
       \E a \in Addresses, s \in Signals :
         /\ op # "update_check" => s = 0
         /\ op = "save_cache" => a = "a1"
         /\ th' = [th EXCEPT ![t] =
                     Frame(op, op, IF op = "save_cache" THEN "none" ELSE a, s)]
  /\ ret' = [ret EXCEPT ![t] = NoRet]
  /\ UNCHANGED <<now, disk, tokens, lock, passed_at, applied>>
  /\ UNCHANGED filterVars
  /\ UNCHANGED driverVars

\* the method returns None to its caller
Return(t) ==
  /\ th' = [th EXCEPT ![t] = Idle]
  /\ ret' = [ret EXCEPT ![t] = PyNone(th[t].op, th[t].addr)]

\* the mutation is done and the method returns without saving
ThenSave_SkipsSave(t) ==
  /\ Return(t)
  /\ lock' = Free

\* the mutation is done; the method calls self.save_cache() inside "with LOCK:"
ThenSave(t) ==
  /\ th' = [th EXCEPT ![t].pc = "save_cache"]
  /\ lock' = t
  /\ UNCHANGED ret

\* add_token without its "if address not in self.tokens" guard
AddToken_Overwrite(t) ==
  /\ th[t].pc = "add_token"
  /\ lock = Free
  /\ tokens' = [k \in DOMAIN tokens \cup {th[t].addr} |->
                  IF k = th[t].addr
                  THEN TokenStateInit(k, 0, now) ELSE tokens[k]]
  /\ applied' = [applied EXCEPT ![th[t].addr] = 0]
  /\ ThenSave(t)
  /\ UNCHANGED <<now, disk, passed_at>>
  /\ UNCHANGED filterVars
  /\ UNCHANGED driverVars

\* TokenCache.add_token
AddToken(t) ==
  /\ th[t].pc = "add_token"
  /\ lock = Free
  /\ IF th[t].addr \notin DOMAIN tokens
     THEN /\ tokens' = [k \in DOMAIN tokens \cup {th[t].addr} |->
                          IF k = th[t].addr
                          THEN TokenStateInit(k, 0, now) ELSE tokens[k]]
          /\ applied' = [applied EXCEPT ![th[t].addr] = 0]
          /\ ThenSave(t)
     ELSE /\ Return(t)
          /\ UNCHANGED <<tokens, lock, applied>>
  /\ UNCHANGED <<now, disk, passed_at>>
  /\ UNCHANGED filterVars
  /\ UNCHANGED driverVars

\* TokenCache.update_check, line 75: token.last_checked = time.time()
UpdateCheck(t) ==
  /\ th[t].pc = "update_check"
  /\ lock = Free
  /\ IF th[t].addr \in DOMAIN tokens
     THEN /\ tokens' = [tokens EXCEPT ![th[t].addr].last_checked = now]
          /\ applied' = [applied EXCEPT ![th[t].addr] =
                           IF @ = Untracked THEN @ ELSE @ + 1]
          /\ th' = [th EXCEPT ![t].pc = "uc_retry_count"]
          /\ lock' = t
          /\ UNCHANGED ret
     ELSE /\ Return(t)
          /\ UNCHANGED <<tokens, lock, applied>>
  /\ UNCHANGED <<now, disk, passed_at>>
  /\ UNCHANGED filterVars
  /\ UNCHANGED driverVars

\* update_check leaving retry_count as it is
UpdateCheckRetryCount_Skipped(t) ==
  /\ th[t].pc = "uc_retry_count"
  /\ tokens' = tokens
  /\ th' = [th EXCEPT ![t].pc = "uc_signal"]
  /\ UNCHANGED <<now, disk, lock, ret, passed_at, applied>>
  /\ UNCHANGED filterVars
  /\ UNCHANGED driverVars

\* TokenCache.update_check, line 76: token.retry_count += 1
UpdateCheckRetryCount(t) ==
  /\ th[t].pc = "uc_retry_count"
  /\ tokens' = [tokens EXCEPT ![th[t].addr].retry_count = @ + 1]
  /\ th' = [th EXCEPT ![t].pc = "uc_signal"]
  /\ UNCHANGED <<now, disk, lock, ret, passed_at, applied>>
  /\ UNCHANGED filterVars
  /\ UNCHANGED driverVars

\* TokenCache.update_check, lines 77-78:
\* token.last_signal_strength = signal_strength; self.save_cache()
UpdateCheckSignal(t) ==
  /\ th[t].pc = "uc_signal"
  /\ tokens' = [tokens EXCEPT ![th[t].addr].last_signal_strength = th[t].sig]
  /\ passed_at' = IF th[t].sig >= 1
                  THEN [passed_at EXCEPT ![th[t].addr] =
                          tokens[th[t].addr].last_checked]
                  ELSE passed_at
  /\ ThenSave(t)
  /\ UNCHANGED <<now, disk, applied>>
  /\ UNCHANGED filterVars
  /\ UNCHANGED driverVars

\* promote_to_cache setting the flag of every record
PromoteToCache_PromotesAll(t) ==
  /\ th[t].pc = "promote_to_cache"
  /\ lock = Free
  /\ IF th[t].addr \in DOMAIN tokens
     THEN /\ tokens' = [k \in DOMAIN tokens |->
                          [tokens[k] EXCEPT !.promoted = TRUE]]
          /\ ThenSave(t)
     ELSE /\ Return(t)
          /\ UNCHANGED <<tokens, lock>>
  /\ UNCHANGED <<now, disk, passed_at, applied>>
  /\ UNCHANGED filterVars
  /\ UNCHANGED driverVars

\* TokenCache.promote_to_cache
PromoteToCache(t) ==
  /\ th[t].pc = "promote_to_cache"
  /\ lock = Free
  /\ IF th[t].addr \in DOMAIN tokens
     THEN /\ tokens' = [tokens EXCEPT ![th[t].addr].promoted = TRUE]
          /\ ThenSave(t)
     ELSE /\ Return(t)
          /\ UNCHANGED <<tokens, lock>>
  /\ UNCHANGED <<now, disk, passed_at, applied>>
  /\ UNCHANGED filterVars
  /\ UNCHANGED driverVars

\* TokenCache.remove_token
RemoveToken(t) ==
  /\ th[t].pc = "remove_token"
  /\ lock = Free
  /\ IF th[t].addr \in DOMAIN tokens
     THEN /\ tokens' = [k \in DOMAIN tokens \ {th[t].addr} |-> tokens[k]]
          /\ passed_at' = [passed_at EXCEPT ![th[t].addr] = 0]
          /\ applied' = [applied EXCEPT ![th[t].addr] = Untracked]
          /\ ThenSave(t)
     ELSE /\ Return(t)
          /\ UNCHANGED <<tokens, lock, passed_at, applied>>
  /\ UNCHANGED <<now, disk>>
  /\ UNCHANGED filterVars
  /\ UNCHANGED driverVars

\* TokenCache.save_cache: "with LOCK:" waits until LOCK is free; threading.Lock
\* is not reentrant, so a caller that already holds LOCK waits for itself.
\* When called from inside a mutator the mutator's own "with LOCK:" block
\* ends afterwards and the mutator returns.
SaveCache(t) ==
  /\ th[t].pc = "save_cache"
  /\ lock = Free
  /\ disk' = dump_cache(tokens)
  /\ lock' = Free
  /\ Return(t)
  /\ UNCHANGED <<now, tokens, passed_at, applied>>
  /\ UNCHANGED filterVars
  /\ UNCHANGED driverVars

\* TokenCache.get_due_for_check (takes no lock)
GetDueForCheck(t) ==
  /\ th[t].pc = "idle"
  /\ "get_due_for_check" \in OpsOf(t)
  /\ \E max_age \in MaxAges, interval \in Intervals :
       ret' = [ret EXCEPT ![t] =
                 PyList("get_due_for_check", max_age, interval,
                        get_due_for_check(max_age, interval))]
  /\ UNCHANGED <<now, disk, tokens, lock, th, passed_at, applied>>
  /\ UNCHANGED filterVars
  /\ UNCHANGED driverVars

\* TokenCache.get_ready_for_purge (takes no lock)
GetReadyForPurge(t) ==
  /\ th[t].pc = "idle"
  /\ "get_ready_for_purge" \in OpsOf(t)
  /\ \E max_lifetime \in Lifetimes :
       ret' = [ret EXCEPT ![t] =
                 PyList("get_ready_for_purge", max_lifetime, 0,
                        get_ready_for_purge(max_lifetime))]
  /\ UNCHANGED <<now, disk, tokens, lock, th, passed_at, applied>>
  /\ UNCHANGED filterVars
  /\ UNCHANGED driverVars

Next ==
  \/ Tick
  \/ \E t \in Threads :
       \/ Call(t)
       \/ AddToken(t)
       \/ UpdateCheck(t)
       \/ UpdateCheckRetryCount(t)
       \/ UpdateCheckSignal(t)
       \/ PromoteToCache(t)
       \/ RemoveToken(t)
       \/ SaveCache(t)
       \/ GetDueForCheck(t)
       \/ GetReadyForPurge(t)

Spec == Init /\ [][Next]_vars

(***************************************************************************)
(* One evaluation of a token by TokenFilter.apply_filters                  *)
(***************************************************************************)
\* no cache activity while an evaluation runs
CacheIdle ==
  /\ now = 1
  /\ disk = Absent
  /\ tokens = EmptyCache
  /\ lock = Free
  /\ th = [t \in Threads |-> Idle]
  /\ ret = [t \in Threads |-> NoRet]
  /\ passed_at = [a \in Addresses |-> 0]
  /\ applied = [a \in Addresses |-> Untracked]

InitFilter ==
  /\ CacheIdle
  /\ DriverIdle
  /\ config \in Configs
  /\ token \in Tokens
  /\ filter_stats = NoStats
  /\ af = AfStart
  /\ rug_resp = NoReport("none")
  /\ hf = HfStart
  /\ calls = NoCalls

Bump(counter, failed) == IF failed THEN counter + 1 ELSE counter

\* holders_distribution_filter returns
HoldersReturn(value) == [af EXCEPT !.pc = "finish", !.holder_pass = value]

\* apply_filters taking LOCK for the length of the evaluation
ApplyFilters_UnderLock ==
  /\ af.pc = "call"
  /\ lock = Free
  /\ lock' = "sched"
  /\ LET token_address ==
           Strip(IF Truthy(token.mint) THEN token.mint
                 ELSE IF Truthy(token.address) THEN token.address ELSE "")
         liq_ok == basic_filter(token)
         fdv_ok == fdv_filter(token)
     IN  IF ~Truthy(token_address) \/ StrLen(token_address) < MinAddressLen
         THEN /\ af' = [af EXCEPT
                          !.pc = "done",
                          !.token_address = token_address,
                          !.verdict =
                            IF config.SIMULATION_MODE_RELAXED_FILTERS
                            THEN "True" ELSE "False"]
              /\ UNCHANGED filter_stats
         ELSE /\ af' = [af EXCEPT
                          !.pc = "rugcheck",
                          !.token_address = token_address,
                          !.passed = liq_ok /\ fdv_ok]
              /\ filter_stats' = [filter_stats EXCEPT
                                    !.liquidity = Bump(@, ~liq_ok),
                                    !.fdv = Bump(@, ~fdv_ok)]
  /\ UNCHANGED <<config, token, rug_resp, hf, calls>>
  /\ UNCHANGED <<now, disk, tokens, th, ret, passed_at, applied>>
  /\ UNCHANGED driverVars

\* apply_filters, lines 33-48: the address check, basic_filter, fdv_filter
ApplyFilters ==
  /\ af.pc = "call"
  /\ LET token_address ==
           Strip(IF Truthy(token.mint) THEN token.mint
                 ELSE IF Truthy(token.address) THEN token.address ELSE "")
         liq_ok == basic_filter(token)
         fdv_ok == fdv_filter(token)
     IN  IF ~Truthy(token_address) \/ StrLen(token_address) < MinAddressLen
         THEN /\ af' = [af EXCEPT
                          !.pc = "done",
                          !.token_address = token_address,
                          !.verdict =
                            IF config.SIMULATION_MODE_RELAXED_FILTERS
                            THEN "True" ELSE "False"]
              /\ UNCHANGED filter_stats
         ELSE /\ af' = [af EXCEPT
                          !.pc = "rugcheck",
                          !.token_address = token_address,
                          !.passed = liq_ok /\ fdv_ok]
              /\ filter_stats' = [filter_stats EXCEPT
                                    !.liquidity = Bump(@, ~liq_ok),
                                    !.fdv = Bump(@, ~fdv_ok)]
  /\ UNCHANGED <<config, token, rug_resp, hf, calls>>
  /\ UNCHANGED cacheVars
  /\ UNCHANGED driverVars

\* rugcheck_score, lines 94-101: requests.get and resp.json()
RugcheckRequest ==
  /\ af.pc = "rugcheck"
  /\ \E resp \in RugResponses : rug_resp' = resp
  /\ calls' = [calls EXCEPT !.rug = @ + 1]
  /\ af' = [af EXCEPT !.pc = "rugcheck_score"]
  /\ UNCHANGED <<config, token, filter_stats, hf>>
  /\ UNCHANGED cacheVars
  /\ UNCHANGED driverVars

\* rugcheck_score, lines 102-126, and apply_filters, lines 50-54. A JSON body
\* that is not an object makes data.get raise outside the try block: the
\* exception leaves rugcheck_score and apply_filters.
RugcheckScore ==
  /\ af.pc = "rugcheck_score"
  /\ IF rug_resp.kind = "not_object"
     THEN /\ af' = [af EXCEPT !.pc = "done", !.verdict = "raised"]
          /\ UNCHANGED filter_stats
     ELSE LET rug_score == rugcheck_score(rug_resp)
              low == rug_score < config.RUGCHECK_MIN_SCORE
          IN  /\ af' = [af EXCEPT !.pc = "holders",
                                  !.rug_score = rug_score,
                                  !.passed = @ /\ ~low]
              /\ filter_stats' = [filter_stats EXCEPT !.rugcheck = Bump(@, low)]
  /\ UNCHANGED <<config, token, rug_resp, hf, calls>>
  /\ UNCHANGED cacheVars
  /\ UNCHANGED driverVars

\* holders_distribution_filter, lines 129-134: the length check and
\* Pubkey.from_string, whose exception the outer handler turns into False.
\* The RugCheck body is gone once scored; how the request ended stays on
\* record.
HoldersBegin ==
  /\ af.pc = "holders"
  /\ rug_resp' = NoReport(rug_resp.kind)
  /\ af' = IF \/ StrLen(af.token_address) # PubkeyLen
              \/ af.token_address = "NotBase58_44"
           THEN HoldersReturn(FALSE)
           ELSE [af EXCEPT !.pc = "supply"]
  /\ UNCHANGED <<config, token, filter_stats, hf, calls>>
  /\ UNCHANGED cacheVars
  /\ UNCHANGED driverVars

\* holders_distribution_filter, lines 138-146: get_token_supply
GetTokenSupply ==
  /\ af.pc = "supply"
  /\ \E resp \in SupplyResponses :
       /\ hf' = [hf EXCEPT !.supply_resp = resp]
       /\ af' = IF Raised(resp) \/ (resp.kind = "ok" /\ ~resp.parsable)
                THEN [af EXCEPT !.pc = "sleep"]
                ELSE IF resp.kind = "no_value" \/ resp.amount = 0
                     THEN HoldersReturn(FALSE)
                     ELSE [af EXCEPT !.pc = "largest"]
  /\ calls' = [calls EXCEPT !.supply = @ + 1]
  /\ UNCHANGED <<config, token, filter_stats, rug_resp>>
  /\ UNCHANGED cacheVars
  /\ UNCHANGED driverVars

\* holders_distribution_filter, lines 148-165: get_token_largest_accounts
GetTokenLargestAccounts ==
  /\ af.pc = "largest"
  /\ \E resp \in HoldersResponses :
       /\ hf' = [hf EXCEPT !.holders_resp = resp]
       /\ af' = IF Raised(resp)
                THEN [af EXCEPT !.pc = "sleep"]
                ELSE IF resp.kind = "no_value"
                     THEN HoldersReturn(FALSE)
                     ELSE HoldersReturn(
                            holders_ok(resp.value, hf.supply_resp.amount, 1))
  /\ calls' = [calls EXCEPT !.holders = @ + 1]
  /\ UNCHANGED <<config, token, filter_stats, rug_resp>>
  /\ UNCHANGED cacheVars
  /\ UNCHANGED driverVars

\* the retry loop running one attempt too many
RetrySleep_ExtraAttempt ==
  /\ af.pc = "sleep"
  /\ hf' = [hf EXCEPT !.sleeps = Append(@, RetryDelay), !.attempt = @ + 1]
  /\ af' = IF hf.attempt + 1 < MaxAttempts + 1
           THEN [af EXCEPT !.pc = "supply"]
           ELSE HoldersReturn(FALSE)
  /\ UNCHANGED <<config, token, filter_stats, rug_resp, calls>>
  /\ UNCHANGED cacheVars
  /\ UNCHANGED driverVars

\* holders_distribution_filter, lines 167-174: the attempt raised; sleep,
\* then the next attempt, or False once range(3) is exhausted
RetrySleep ==
  /\ af.pc = "sleep"
  /\ hf' = [hf EXCEPT !.sleeps = Append(@, RetryDelay), !.attempt = @ + 1]
  /\ af' = IF hf.attempt + 1 < MaxAttempts
           THEN [af EXCEPT !.pc = "supply"]
           ELSE HoldersReturn(FALSE)
  /\ UNCHANGED <<config, token, filter_stats, rug_resp, calls>>
  /\ UNCHANGED cacheVars
  /\ UNCHANGED driverVars

\* apply_filters counting a failed holder check only when it decides the
\* verdict
ApplyFiltersReturn_CountsVerdict ==
  /\ af.pc = "finish"
  /\ LET passed ==
           IF ~af.holder_pass /\ ~(af.rug_score >= config.RUGCHECK_MIN_SCORE)
           THEN FALSE ELSE af.passed
     IN  af' = [af EXCEPT
                  !.pc = "done",
                  !.passed = passed,
                  !.verdict =
                    IF ~passed /\ config.SIMULATION_MODE_RELAXED_FILTERS
                    THEN "True"
                    ELSE IF passed THEN "True" ELSE "False"]
  /\ filter_stats' = [filter_stats EXCEPT
                        !.holders =
                          Bump(@, ~af.holder_pass
                                    /\ ~(af.rug_score >= config.RUGCHECK_MIN_SCORE))]
  /\ UNCHANGED <<config, token, rug_resp, hf, calls>>
  /\ UNCHANGED cacheVars
  /\ UNCHANGED driverVars

\* apply_filters, lines 56-72
ApplyFiltersReturn ==
  /\ af.pc = "finish"
  /\ LET passed ==
           IF ~af.holder_pass /\ ~(af.rug_score >= config.RUGCHECK_MIN_SCORE)
           THEN FALSE ELSE af.passed
     IN  af' = [af EXCEPT
                  !.pc = "done",
                  !.passed = passed,
                  !.verdict =
                    IF ~passed /\ config.SIMULATION_MODE_RELAXED_FILTERS
                    THEN "True"
                    ELSE IF passed THEN "True" ELSE "False"]
  /\ filter_stats' = [filter_stats EXCEPT !.holders = Bump(@, ~af.holder_pass)]
  /\ UNCHANGED <<config, token, rug_resp, hf, calls>>
  /\ UNCHANGED cacheVars
  /\ UNCHANGED driverVars

NextFilter ==
  \/ ApplyFilters
  \/ RugcheckRequest
  \/ RugcheckScore
  \/ HoldersBegin
  \/ GetTokenSupply
  \/ GetTokenLargestAccounts
  \/ RetrySleep
  \/ ApplyFiltersReturn

SpecFilter == InitFilter /\ [][NextFilter]_vars

(***************************************************************************)
(* Claims about the lifecycle cache                                        *)
(***************************************************************************)
\* the step in which thread t runs the locked body of method op
BodyStep(t, op) == th[t].pc = op /\ th'[t].pc # op

\* C1: the cache never holds two records for the same address, and an
\* add_token for an address already present, from either thread, changes no
\* record (first_seen, last_checked, retry_count, promoted and
\* last_signal_strength stay as they were).
C1_InsertIfNew ==
  /\ [](\A k1, k2 \in DOMAIN tokens :
          tokens[k1].address = tokens[k2].address => k1 = k2)
  /\ [][\A t \in Threads :
          BodyStep(t, "add_token") /\ th[t].addr \in DOMAIN tokens
            => tokens' = tokens]_vars

\* C1 witness: both threads have completed an add_token for a1, which was
\* present with a recorded check, next to a second record.
C1_Witness ==
  /\ \A t \in Threads : ret[t] = PyNone("add_token", "a1")
  /\ DOMAIN tokens = Addresses
  /\ tokens["a1"].retry_count >= 1

\* the purge condition of a record for the shortest configured lifetime
PurgeCondition(a) ==
  /\ tokens[a].last_signal_strength < 1
  /\ \E max_lifetime \in Lifetimes :
       now >= tokens[a].first_seen + max_lifetime

\* C2: a token leaves the cache only when, at that moment, its expiry has
\* been reached and its last_signal_strength is below 1.
C2_PurgeSafety ==
  [][\A a \in DOMAIN tokens : a \notin DOMAIN tokens' => PurgeCondition(a)]_vars

\* C3: a promote_to_cache call for an address that is already promoted does
\* not promote again: it returns False to its caller.
C3_PromoteOnce ==
  [][\A t \in Threads :
       /\ BodyStep(t, "promote_to_cache")
       /\ th[t].addr \in DOMAIN tokens
       /\ tokens[th[t].addr].promoted
       => th'[t].pc = "idle" /\ ret'[t].kind = "False"]_vars

\* C9: a passing update_check at time p extends the token's expiry to
\* p + extend_by and a later failing update_check leaves that expiry alone:
\* the token is not ready for purge before p + extend_by (extend_by being the
\* lifetime the purge is asked with).
C9_OutcomeRecording ==
  \A a \in DOMAIN tokens : \A max_lifetime \in Lifetimes :
    /\ passed_at[a] > 0
    /\ tokens[a].last_checked > passed_at[a]
    /\ a \in get_ready_for_purge(max_lifetime)
    => now >= passed_at[a] + max_lifetime

\* C10: get_due_for_check never returns a promoted token.
C10_QualifiedTerminal ==
  \A t \in Threads :
    ret[t].op = "get_due_for_check"
      => \A a \in ret[t].value \cap DOMAIN tokens : ~tokens[a].promoted

(***************************************************************************)
(* Claims about the filters                                                *)
(***************************************************************************)
\* the RugCheck request failed: not found, an error status, a timeout or
\* connection error, or a body that is not JSON
RugRequestFailed ==
  rug_resp.kind \in {"404", "http_error", "timeout", "bad_json"}

\* every attempt of the holder check raised, or the oracle's last answer
\* lacked its value
HolderOracleFailed ==
  \/ Len(hf.sleeps) = MaxAttempts
  \/ af.pc \in {"finish", "done"} /\ calls.supply > Len(hf.sleeps)
       /\ \/ hf.supply_resp.kind = "no_value"
          \/ calls.holders = calls.supply - Len(hf.sleeps)
               /\ hf.supply_resp.kind = "ok" /\ hf.supply_resp.amount > 0
               /\ hf.holders_resp.kind = "no_value"

C5_NoPassOnOracleFailure ==
  af.pc = "done" /\ (RugRequestFailed \/ HolderOracleFailed)
    => af.verdict = "False"

\* C6: apply_filters returns True only if the liquidity, FDV, RugCheck and
\* holder-distribution checks all passed.
C6_AllStagesPass ==
  af.pc = "done" /\ af.verdict = "True"
    => /\ basic_filter(token)
       /\ fdv_filter(token)
       /\ af.rug_score >= config.RUGCHECK_MIN_SCORE
       /\ af.holder_pass

\* C7: the retry loop never issues more than MaxAttempts requests to either
\* RPC method; when every attempt raised it has made exactly MaxAttempts
\* attempts and reports failure; the delays between attempts never decrease.
C7_RetryBound ==
  /\ calls.supply <= MaxAttempts
  /\ calls.holders <= calls.supply
  /\ \A i, j \in 1..Len(hf.sleeps) : i <= j => hf.sleeps[i] <= hf.sleeps[j]
  /\ /\ af.pc \in {"finish", "done"}
     /\ calls.supply > 0
     /\ Len(hf.sleeps) = calls.supply
     => calls.supply = MaxAttempts /\ ~af.holder_pass

\* C7 witness: the evaluation ended after MaxAttempts raising attempts, the
\* holder request having raised at least once.
C7_Witness ==
  /\ af.pc = "done"
  /\ Len(hf.sleeps) = MaxAttempts
  /\ calls.supply = MaxAttempts
  /\ calls.holders >= 1
  /\ ~af.holder_pass

\* a valid address: the evaluation gets past the address check
ValidAddress == Truthy(af.token_address) /\ StrLen(af.token_address) >= MinAddressLen

ReturnStep(t, op) ==
  th[t].op = op /\ th[t].pc # "idle" /\ th'[t].pc = "idle"

\* C11: get_due_for_check(interval) returns exactly the cached tokens that
\* are not promoted and satisfy now - last_checked >= interval.
C11_DueExactly ==
  [][\A t \in Threads :
       ret'[t] # ret[t] /\ ret'[t].op = "get_due_for_check"
         => ret'[t].value =
              {k \in DOMAIN tokens :
                 /\ ~tokens[k].promoted
                 /\ now - tokens[k].last_checked >= ret'[t].a2}]_vars

\* C14: add_token returns True exactly when it created the record (the
\* return that follows its save_cache) and False when the address was
\* already present.
C14_InsertReportsEffect ==
  [][\A t \in Threads :
       ReturnStep(t, "add_token")
         => ret'[t].kind = IF th[t].pc = "save_cache" THEN "True" ELSE "False"]_vars

\* C16: update_check, promote_to_cache and remove_token on an address that
\* is not in the cache return an error to the caller and leave the cache
\* unchanged.
C16_AbsentAddressIsError ==
  [][\A t \in Threads :
       \A op \in {"update_check", "promote_to_cache", "remove_token"} :
         BodyStep(t, op) /\ th[t].addr \notin DOMAIN tokens
           => /\ tokens' = tokens
              /\ ReturnStep(t, op)
              /\ ret'[t].kind = "error"]_vars

\* C15: whatever the cache holds, what save_cache writes is read back by
\* load_cache, now or at any later start, as the same addresses with the
\* same first_seen, last_checked, retry_count, promoted and
\* last_signal_strength.
C15_SnapshotRoundTrip ==
  \A clock \in TimePoints :
    clock >= now => load_cache(dump_cache(tokens), clock) = tokens

\* C15 witness: save_cache has just written a cache holding a checked and
\* promoted token with a positive signal.
C15_Witness ==
  /\ ret["sched"].op = "save_cache"
  /\ disk = dump_cache(tokens)
  /\ \E a \in DOMAIN tokens :
       /\ tokens[a].promoted
       /\ tokens[a].retry_count >= 1
       /\ tokens[a].last_signal_strength = 1

(***************************************************************************)
(* A purge cycle racing with outcome recording                             *)
(***************************************************************************)
\* One thread reads get_ready_for_purge and calls remove_token for an address
\* of the list it read; the other thread records outcomes with update_check.
Purger == "sched"
Checker == "ingest"

\* the purger picks an address of the list it last read
PurgeCall ==
  /\ th[Purger].pc = "idle"
  /\ ret[Purger].op = "get_ready_for_purge"
  /\ \E a \in ret[Purger].value :
       th' = [th EXCEPT ![Purger] = Frame("remove_token", "remove_token", a, 0)]
  /\ UNCHANGED <<now, disk, tokens, lock, ret, passed_at, applied>>
  /\ UNCHANGED filterVars
  /\ UNCHANGED driverVars

\* the other thread calls update_check
CheckCall ==
  /\ th[Checker].pc = "idle"
  /\ \E a \in Addresses, s \in Signals :
       th' = [th EXCEPT ![Checker] = Frame("update_check", "update_check", a, s)]
  /\ ret' = [ret EXCEPT ![Checker] = NoRet]
  /\ UNCHANGED <<now, disk, tokens, lock, passed_at, applied>>
  /\ UNCHANGED filterVars
  /\ UNCHANGED driverVars

NextPurge ==
  \/ Tick
  \/ GetReadyForPurge(Purger)
  \/ PurgeCall
  \/ RemoveToken(Purger)
  \/ CheckCall
  \/ UpdateCheck(Checker)
  \/ UpdateCheckRetryCount(Checker)
  \/ UpdateCheckSignal(Checker)

\* neither get_ready_for_purge, remove_token nor update_check reads the
\* promoted flag: the race is followed on caches of unpromoted tokens
InitPurge ==
  /\ Init
  /\ \A a \in DOMAIN tokens : ~tokens[a].promoted

SpecPurge == InitPurge /\ [][NextPurge]_vars

\* C12: in every interleaving of the purge cycle with update_check, a token
\* is removed only while its recorded signal is below 1 and no update_check
\* is part-way through recording an outcome for it, and a remove_token for
\* an address already removed removes nothing.
C12_NoLostSignal ==
  [][/\ \A a \in DOMAIN tokens :
          a \notin DOMAIN tokens'
            => /\ tokens[a].last_signal_strength < 1
               /\ \A u \in Threads :
                    ~(th[u].addr = a /\ th[u].pc \in {"uc_retry_count", "uc_signal"})
     /\ BodyStep(Purger, "remove_token") /\ th[Purger].addr \notin DOMAIN tokens
          => tokens' = tokens /\ disk' = disk]_vars

\* C12 witness: the purger removed a1, which was in the list it had read,
\* while the other thread's update_check("a1", 1) was waiting for LOCK.
C12_Witness ==
  /\ "a1" \notin DOMAIN tokens
  /\ th[Purger] = Frame("remove_token", "save_cache", "a1", 0)
  /\ "a1" \in ret[Purger].value
  /\ th[Checker] = Frame("update_check", "update_check", "a1", 1)

(***************************************************************************)
(* Claims about the end of tracking, persistence and errors                *)
(***************************************************************************)
\* token a, left as it is, is returned by get_due_for_check now or at some
\* later time: the first time it is due again is still within max_age
EventuallyDue(a) ==
  \E max_age \in MaxAges, interval \in Intervals :
    Max(now, tokens[a].last_checked + interval) - tokens[a].first_seen
      < max_age * SecondsPerMinute

\* token a, left as it is, is returned by get_ready_for_purge once its
\* lifetime has passed
EventuallyReady(a) == tokens[a].last_signal_strength < 1

\* C13: every unpromoted token in the cache is, now or at some later time,
\* returned by get_due_for_check or by get_ready_for_purge, so that the
\* scheduler's cycle can still promote or remove it; none stays in the cache
\* for ever out of reach of both.
C13_TrackingEnds ==
  \A a \in DOMAIN tokens :
    ~tokens[a].promoted => EventuallyDue(a) \/ EventuallyReady(a)

\* the methods that change the cache and then call save_cache under LOCK
Mutators == {"add_token", "update_check", "promote_to_cache", "remove_token"}

\* C17: a cache started on an absent or unparsable file is empty, and a
\* mutator that has applied its change and reached the snapshot write does
\* not wait for a LOCK it holds itself: it can complete and release LOCK
\* whatever becomes of the write.
C17_PersistenceNonFatal ==
  /\ /\ disk.kind # "json"
     /\ \A t \in Threads : th[t] = Idle /\ ret[t] = NoRet
     => tokens = EmptyCache
  /\ \A t \in Threads :
       th[t].op \in Mutators /\ th[t].pc = "save_cache" => lock # t

(***************************************************************************)
(* main.py: main_loop over the batches of new tokens                       *)
(***************************************************************************)
\* what evaluating a token does: filter_token returns True or False or
\* raises; process_token runs to its end or raises inside its own try block
Evaluations == [filter : {"True", "False", "raise"}, process : {"ok", "raise"}]
Batches == UNION {[1..n -> Evaluations] : n \in 0..MaxBatch}

InitBatch ==
  /\ CacheIdle
  /\ FilterIdle
  /\ DriverIdle

\* main_loop, lines 270-275: get_new_tokens_multi_source returns the batch
\* or raises
MainLoopFetch ==
  /\ ml.pc = "fetch"
  /\ ml.cycle < MaxCycles
  /\ \/ /\ batch' \in Batches
        /\ ml' = [ml EXCEPT !.pc = "for", !.i = 1, !.evaluated = {}]
     \/ /\ batch' = <<>>
        /\ ml' = [ml EXCEPT !.pc = "except", !.i = 1, !.evaluated = {}]
  /\ UNCHANGED <<tm, rd, tradeVars>>
  /\ UNCHANGED cacheVars
  /\ UNCHANGED filterVars

\* main_loop, lines 277-278: the next token of the batch goes to
\* filter_token, whose exception nothing catches before line 293
MainLoopFor ==
  /\ ml.pc = "for"
  /\ IF ml.i > Len(batch)
     THEN ml' = [ml EXCEPT !.pc = "monitor"]
     ELSE ml' = [ml EXCEPT
                   !.evaluated = @ \cup {ml.i},
                   !.pc = CASE batch[ml.i].filter = "True" -> "process"
                            [] batch[ml.i].filter = "False" -> "for"
                            [] OTHER -> "except",
                   !.i = IF batch[ml.i].filter = "False" THEN @ + 1 ELSE @]
  /\ UNCHANGED <<batch, tm, rd, tradeVars>>
  /\ UNCHANGED cacheVars
  /\ UNCHANGED filterVars

\* main_loop, line 279, and process_token, lines 163-216: every exception of
\* the processing is caught and logged by process_token itself
ProcessToken ==
  /\ ml.pc = "process"
  /\ ml' = [ml EXCEPT !.pc = "for", !.i = @ + 1]
  /\ UNCHANGED <<batch, tm, rd, tradeVars>>
  /\ UNCHANGED cacheVars
  /\ UNCHANGED filterVars

\* main_loop, lines 281-291: monitor_positions, the periodic report and the
\* sleep before the next iteration; either call may raise
MainLoopRest ==
  /\ ml.pc = "monitor"
  /\ \/ ml' = [ml EXCEPT !.pc = "fetch", !.cycle = @ + 1]
     \/ ml' = [ml EXCEPT !.pc = "except"]
  /\ UNCHANGED <<batch, tm, rd, tradeVars>>
  /\ UNCHANGED cacheVars
  /\ UNCHANGED filterVars

\* main_loop, lines 293-296: log the error, sleep, start the next iteration
MainLoopExcept ==
  /\ ml.pc = "except"
  /\ ml' = [ml EXCEPT !.pc = "fetch", !.cycle = @ + 1]
  /\ UNCHANGED <<batch, tm, rd, tradeVars>>
  /\ UNCHANGED cacheVars
  /\ UNCHANGED filterVars

NextBatch ==
  \/ MainLoopFetch
  \/ MainLoopFor
  \/ ProcessToken
  \/ MainLoopRest
  \/ MainLoopExcept

SpecBatch == InitBatch /\ [][NextBatch]_vars

\* C18: when main_loop leaves the loop over a batch, normally or through an
\* exception raised while evaluating one token, every token of the batch has
\* been given to filter_token.
C18_FaultIsolation ==
  ml.pc \in {"monitor", "except"} => ml.evaluated = 1..Len(batch)

(***************************************************************************)
(* Further claims about the filters                                        *)
(***************************************************************************)
\* C19: a token whose address is missing (mint None, empty or blank, and no
\* "address" key either) is never given a pass verdict by apply_filters, in
\* any configuration.
C19_MalformedDropped ==
  /\ af.pc = "done"
  /\ af.token_address = ""
  /\ token.address = PyNull
  => af.verdict = "False"

\* the report in hand names one of the grounds for rejection
ReportCompromised ==
  \/ rug_resp.rugged
  \/ Lower(rug_resp.result) \in {"blacklisted", "danger"}
  \/ rug_resp.mintAuthority \notin {PyNull, "", "null"}
  \/ rug_resp.freezeAuthority \notin {PyNull, "", "null"}
  \/ rug_resp.knownAccounts > 0

\* C20: under the default RUGCHECK_MIN_SCORE, a report with rugged = true, a
\* blacklisted or danger result, a mint authority, a freeze authority or
\* known accounts is rejected by the safety stage of apply_filters.
C20_SafetyRejects ==
  /\ af.pc = "holders"
  /\ rug_resp.kind = "ok"
  /\ config.RUGCHECK_MIN_SCORE = DefaultMinScore
  /\ ReportCompromised
  => /\ af.rug_score < config.RUGCHECK_MIN_SCORE
     /\ filter_stats.rugcheck = 1

\* ---------------------------------------------------------------------------
\* holders_distribution_filter on answers of the RPC node, lines 138-165
\* ---------------------------------------------------------------------------

\* the entries of the list that the loop of line 155 reads
Consumed(holders) == 1..Min(Len(holders), TopN)

\* the call has returned on a supply above zero and a list of holders
HoldersAnswered ==
  /\ af.pc \in {"finish", "done"}
  /\ hf.supply_resp.kind = "ok" /\ hf.supply_resp.parsable
  /\ hf.supply_resp.amount > 0
  /\ hf.holders_resp.kind = "ok"

\* every entry read carries an amount that int() parses
WellFormed(holders) == \A i \in Consumed(holders) : holders[i].parsable

\* C21: on a well-formed answer with a supply S above zero,
\* holders_distribution_filter returns False exactly when one of the first ten
\* holders has amount * 100 / S strictly above TOP_HOLDER_MAX_PERCENT
C21_StrictCeiling ==
  HoldersAnswered /\ WellFormed(hf.holders_resp.value) =>
    (af.holder_pass <=>
       ~ \E i \in Consumed(hf.holders_resp.value) :
           hf.holders_resp.value[i].amount * 100 >
             config.TOP_HOLDER_MAX_PERCENT * hf.supply_resp.amount)

\* the report of RugCheck as data.get reads it when the object has no field
EmptyReport == NoReport("ok")

\* C22: holders_distribution_filter returns False when the supply is zero, when
\* the supply or the holders answer has no value, and when an entry it reads
\* has an amount that does not parse; rugcheck_score rejects a report that
\* lacks the fields it reads
C22_MalformedRejected ==
  /\ af.pc \in {"finish", "done"} =>
       /\ hf.supply_resp.kind = "no_value" => ~af.holder_pass
       /\ (hf.supply_resp.kind = "ok" /\ hf.supply_resp.parsable
             /\ hf.supply_resp.amount = 0) => ~af.holder_pass
       /\ (hf.supply_resp.kind = "ok" /\ hf.supply_resp.parsable
             /\ hf.supply_resp.amount > 0
             /\ hf.holders_resp.kind = "no_value") => ~af.holder_pass
       /\ (HoldersAnswered /\ ~WellFormed(hf.holders_resp.value)) =>
            ~af.holder_pass
  /\ (af.pc = "holders" /\ rug_resp = EmptyReport
        /\ config.RUGCHECK_MIN_SCORE > 0) =>
       af.rug_score < config.RUGCHECK_MIN_SCORE

\* ---------------------------------------------------------------------------
\* the first stage of apply_filters at the edges of its thresholds
\* ---------------------------------------------------------------------------

\* candidates at, just below and just above the floor of liquidity and the
\* two ends of the valuation range
EdgeTokens ==
  [mint : {"Addr44", "Short31"},
   address : {PyNull},
   liquidity_usd : {0, 19999, 20000, 20001, 50000},
   fdv : {-1, 0, 1, 300000, 10000000, 10000001}]

InitEdge ==
  /\ CacheIdle
  /\ DriverIdle
  /\ config \in Configs
  /\ token \in EdgeTokens
  /\ filter_stats = NoStats
  /\ af = AfStart
  /\ rug_resp = NoReport("none")
  /\ hf = HfStart
  /\ calls = NoCalls

NextEdge == ApplyFilters \/ RugcheckRequest

SpecEdge == InitEdge /\ [][NextEdge]_vars

StepOf(t) ==
  \/ AddToken(t)
  \/ UpdateCheck(t)
  \/ UpdateCheckRetryCount(t)
  \/ UpdateCheckSignal(t)
  \/ PromoteToCache(t)
  \/ RemoveToken(t)
  \/ SaveCache(t)

\* C24: no call deadlocks on LOCK: while a call of add_token, update_check,
\* promote_to_cache or remove_token is in progress some thread inside a call
\* can take its next step, so every call returns and leaves LOCK free
C24_NoSelfDeadlock ==
  (\E t \in Threads : th[t].pc # "idle") =>
    \E u \in Threads : ENABLED StepOf(u)

\* ---------------------------------------------------------------------------
\* the retry policy of the oracle calls
\* ---------------------------------------------------------------------------

\* the attempt that just ended raised an error of the fatal kind
FatalRaised ==
  \/ hf.supply_resp.kind = "raise_fatal"
  \/ /\ hf.supply_resp.kind = "ok" /\ hf.supply_resp.parsable
     /\ hf.supply_resp.amount > 0
     /\ hf.holders_resp.kind = "raise_fatal"

\* C26: an oracle call that fails with an error of the fatal kind is not
\* retried: the retry loop neither sleeps nor calls again after it
C26_FatalNotRetried == af.pc = "sleep" => ~FatalRaised

\* C27: the delay between attempts grows exponentially, each delay twice the
\* one before it
C27_ExponentialBackoff ==
  \A k \in 1..(Len(hf.sleeps) - 1) : hf.sleeps[k + 1] = 2 * hf.sleeps[k]

\* C28: a transient failure is retried up to MaxAttempts for both oracles:
\* rugcheck_score does not give up on a timeout before its last attempt, and
\* holders_distribution_filter does not give up on raising attempts before
\* its last one
C28_BothOraclesRetry ==
  /\ (af.pc \notin {"call", "rugcheck", "rugcheck_score"}
        /\ rug_resp.kind = "timeout") => calls.rug = MaxAttempts
  /\ (af.pc \in {"finish", "done"} /\ calls.supply > 0
        /\ Len(hf.sleeps) = calls.supply) => calls.supply = MaxAttempts

(***************************************************************************)
(* token_monitor.py: TokenMonitor.run                                      *)
(***************************************************************************)
\* the mint addresses the listener hands to the monitor
Mints == {"m1", "m2", "m3"}

\* membership in a list of addresses
InSeq(a, q) == \E k \in 1..Len(q) : q[k] = a

\* run, lines 111-127: a pending token is taken for a recheck and popped from
\* pending_tokens (the first item of the dict); without pending tokens
\* token_cache.get_token() hands out a new address or None
MonitorPick ==
  /\ tm.pc = "pick"
  /\ IF tm.pending # <<>>
     THEN tm' = [tm EXCEPT !.pc = "filter", !.cur = Head(tm.pending),
                           !.pending = Tail(tm.pending)]
     ELSE \E a \in Mints \ tm.seen :
            tm' = [tm EXCEPT !.pc = "fetch", !.cur = a, !.seen = @ \cup {a}]
  /\ UNCHANGED <<batch, ml, rd, tradeVars>>
  /\ UNCHANGED cacheVars
  /\ UNCHANGED filterVars

\* run, lines 130-138: _fetch_token_data returns a TokenInfo, kept in
\* self.tokens, or None, and then the token is skipped
MonitorFetch ==
  /\ tm.pc = "fetch"
  /\ \E fetched \in BOOLEAN :
       tm' = IF fetched
             THEN [tm EXCEPT !.pc = "filter", !.tokens = @ \cup {tm.cur}]
             ELSE [tm EXCEPT !.pc = "pick", !.cur = "none"]
  /\ UNCHANGED <<batch, ml, rd, tradeVars>>
  /\ UNCHANGED cacheVars
  /\ UNCHANGED filterVars

\* run, lines 140-179: filters.basic_filter passes, rejects or raises. An
\* exception is logged and the loop continues (148); a rejected token goes
\* back to pending_tokens while its age is below RECHECK_WINDOW_SEC (153-155)
\* and is given up otherwise; a passing token is bought and leaves tokens
MonitorFilter ==
  /\ tm.pc = "filter"
  /\ \E outcome \in {"True", "False", "raise"} :
       tm' = CASE outcome = "raise" ->
                    [tm EXCEPT !.pc = "pick", !.cur = "none"]
               [] outcome = "False" ->
                    [tm EXCEPT !.pc = "pick", !.cur = "none",
                               !.pending = IF tm.cur \in tm.expired THEN @
                                           ELSE Append(@, tm.cur)]
               [] OTHER ->
                    [tm EXCEPT !.pc = "pick", !.cur = "none",
                               !.bought = @ \cup {tm.cur},
                               !.tokens = @ \ {tm.cur}]
  /\ UNCHANGED <<batch, ml, rd, tradeVars>>
  /\ UNCHANGED cacheVars
  /\ UNCHANGED filterVars

\* time passes: the age of a token reaches RECHECK_WINDOW_SEC (line 152)
WindowExpires ==
  /\ \E a \in tm.seen \ tm.expired : tm' = [tm EXCEPT !.expired = @ \cup {a}]
  /\ UNCHANGED <<batch, ml, rd, tradeVars>>
  /\ UNCHANGED cacheVars
  /\ UNCHANGED filterVars

NextMonitor == MonitorPick \/ MonitorFetch \/ MonitorFilter \/ WindowExpires

InitMonitor == CacheIdle /\ FilterIdle /\ DriverIdle

SpecMonitor == InitMonitor /\ [][NextMonitor]_vars

\* the monitor still has the token to evaluate: in hand for the filters, or
\* in pending_tokens
Eligible(a) ==
  \/ tm.pc = "filter" /\ tm.cur = a
  \/ InSeq(a, tm.pending)

\* C25: a candidate that has not passed stays eligible for another evaluation
\* until it passes or its recheck window has expired; no step of the loop
\* drops it before
C25_EligibleUntilDecided ==
  [][\A a \in Mints :
       Eligible(a) /\ ~Eligible(a)' => a \in tm'.bought \/ a \in tm.expired]_vars

(***************************************************************************)
(* token_cache.py: the reads, one item of self.tokens at a time            *)
(***************************************************************************)
\* the test of the comprehension of get_due_for_check on one TokenState
due_item(v, clock, max_age, interval) ==
  /\ clock - v.last_checked >= interval
  /\ clock - v.first_seen < max_age * SecondsPerMinute

\* the test of the comprehension of get_ready_for_purge on one item
purge_item(v, clock, max_lifetime) ==
  /\ clock - v.first_seen > max_lifetime
  /\ v.last_signal_strength < 1

ReadItem(op, v, clock, a1, a2) ==
  IF op = "get_due_for_check" THEN due_item(v, clock, a1, a2)
  ELSE purge_item(v, clock, a1)

\* what the read returns when nothing else runs: its answer on the cache toks
AnswerOn(toks, op, clock, a1, a2) ==
  {k \in DOMAIN toks : ReadItem(op, toks[k], clock, a1, a2)}

\* the orders in which a dict with the keys S may be iterated
Orders(S) ==
  {q \in [1..Cardinality(S) -> S] :
     \A i, j \in 1..Cardinality(S) : i # j => q[i] # q[j]}

\* the thread that mutates the cache while the other one reads it
Writer == "ingest"

\* lines 88 and 95: now = time.time(), then the iteration over self.tokens
\* begins; no lock is taken
ReadCall ==
  /\ rd.pc = "idle"
  /\ \E op \in {"get_due_for_check", "get_ready_for_purge"},
        a1 \in MaxAges \cup Lifetimes, a2 \in Intervals,
        order \in Orders(DOMAIN tokens) :
       /\ op = "get_due_for_check" => a1 \in MaxAges
       /\ op = "get_ready_for_purge" => a1 \in Lifetimes /\ a2 = 1
       /\ rd' = [pc |-> "iter", op |-> op, a1 |-> a1, a2 |-> a2, t0 |-> now,
                 order |-> order, i |-> 1, value |-> {},
                 snaps |-> {AnswerOn(tokens, op, now, a1, a2)},
                 kind |-> "none"]
  /\ UNCHANGED <<batch, ml, tm, tradeVars>>
  /\ UNCHANGED cacheVars
  /\ UNCHANGED filterVars

\* lines 89-92 and 96-101: one step of the comprehension. The iterator of a
\* dict raises RuntimeError when the dict has changed size since the
\* iteration began; otherwise the next item is tested as it is now and kept
\* or not, and after the last item the list is returned
ReadNext ==
  /\ rd.pc = "iter"
  /\ LET seen == AnswerOn(tokens, rd.op, rd.t0, rd.a1, rd.a2)
     IN  IF DOMAIN tokens # {rd.order[k] : k \in 1..Len(rd.order)}
         THEN rd' = [rd EXCEPT !.pc = "done", !.kind = "raised",
                               !.snaps = @ \cup {seen}]
         ELSE IF rd.i > Len(rd.order)
         THEN rd' = [rd EXCEPT !.pc = "done", !.kind = "list",
                               !.snaps = @ \cup {seen}]
         ELSE rd' = [rd EXCEPT
                       !.i = @ + 1,
                       !.value =
                         IF ReadItem(rd.op, tokens[rd.order[rd.i]], rd.t0,
                                     rd.a1, rd.a2)
                         THEN @ \cup {rd.order[rd.i]} ELSE @,
                       !.snaps = @ \cup {seen}]
  /\ UNCHANGED <<batch, ml, tm, tradeVars>>
  /\ UNCHANGED cacheVars
  /\ UNCHANGED filterVars

\* the caller has the list, or the exception
ReadReturn ==
  /\ rd.pc = "done"
  /\ rd' = RdStart
  /\ UNCHANGED <<batch, ml, tm, tradeVars>>
  /\ UNCHANGED cacheVars
  /\ UNCHANGED filterVars

\* the writer calls add_token, update_check or remove_token
WriteCall ==
  /\ th[Writer].pc = "idle"
  /\ \E op \in {"add_token", "update_check", "remove_token"},
        a \in Addresses, s \in Signals :
       /\ op # "update_check" => s = 0
       /\ th' = [th EXCEPT ![Writer] = Frame(op, op, a, s)]
  /\ ret' = [ret EXCEPT ![Writer] = NoRet]
  /\ UNCHANGED <<now, disk, tokens, lock, passed_at, applied>>
  /\ UNCHANGED filterVars
  /\ UNCHANGED driverVars

NextRead ==
  \/ Tick
  \/ ReadCall
  \/ ReadNext
  \/ ReadReturn
  \/ WriteCall
  \/ AddToken(Writer)
  \/ UpdateCheck(Writer)
  \/ UpdateCheckRetryCount(Writer)
  \/ UpdateCheckSignal(Writer)
  \/ RemoveToken(Writer)

SpecRead == InitPurge /\ [][NextRead]_vars

\* C29: get_due_for_check and get_ready_for_purge are reads with snapshot
\* semantics: under every interleaving with add_token, update_check and
\* remove_token a call returns a list, and the list is the answer on one
\* state of the cache that existed during the call
C29_SnapshotReads ==
  rd.pc = "done" => rd.kind = "list" /\ rd.value \in rd.snaps

(***************************************************************************)
(* An evaluation while the listener inserts into the cache                 *)
(***************************************************************************)
\* the thread that runs apply_filters
Evaluator == "sched"

\* a request to an oracle is in flight, or the retry loop sleeps
OracleCall == af.pc \in {"rugcheck", "supply", "largest", "sleep"}

NextEval ==
  \/ NextFilter
  \/ Call("ingest")
  \/ AddToken("ingest")

InitEval == CacheIdle /\ FilterIdle /\ DriverIdle

SpecEval == InitEval /\ [][NextEval]_vars

\* C30: no oracle call is made under LOCK: while a request of
\* rugcheck_score or holders_distribution_filter is in flight the evaluating
\* thread does not hold LOCK, and an add_token of the listener that has
\* reached its "with LOCK:" can take it
C30_OracleOutsideLock ==
  OracleCall =>
    /\ lock # Evaluator
    /\ th["ingest"].pc = "add_token" => ENABLED AddToken("ingest")

C30_Witness ==
  /\ af.pc = "sleep"
  /\ calls.supply = 2
  /\ th["ingest"].pc = "add_token"
  /\ lock = Free

(***************************************************************************)
(* filters.py: the counters of TokenFilter over several evaluations        *)
(***************************************************************************)
\* the candidates of the evaluations that are counted
StatTokens ==
  {k \in Tokens : /\ k.mint \in {"Addr43", "Addr44"}
                  /\ k.address = PyNull
                  /\ k.fdv \in {0, 300000}}

\* apply_filters has returned or raised; the caller evaluates another token
EvaluateAgain ==
  /\ af.pc = "done"
  /\ af.evals + 1 < MaxEvals
  /\ token' \in StatTokens
  /\ af' = [AfStart EXCEPT !.stats0 = filter_stats, !.evals = af.evals + 1]
  /\ rug_resp' = NoReport("none")
  /\ hf' = HfStart
  /\ calls' = NoCalls
  /\ UNCHANGED <<config, filter_stats>>
  /\ UNCHANGED cacheVars
  /\ UNCHANGED driverVars

\* TokenFilter.reset_filter_statistics, between two evaluations
ResetFilterStatistics ==
  /\ af.pc = "call"
  /\ filter_stats # NoStats
  /\ filter_stats' = NoStats
  /\ af' = [af EXCEPT !.stats0 = NoStats]
  /\ UNCHANGED <<config, token, rug_resp, hf, calls>>
  /\ UNCHANGED cacheVars
  /\ UNCHANGED driverVars

InitStats ==
  /\ CacheIdle
  /\ DriverIdle
  /\ config \in Configs
  /\ token \in StatTokens
  /\ filter_stats = NoStats
  /\ af = AfStart
  /\ rug_resp = NoReport("none")
  /\ hf = HfStart
  /\ calls = NoCalls

NextStats == NextFilter \/ EvaluateAgain \/ ResetFilterStatistics

SpecStats == InitStats /\ [][NextStats]_vars

\* 1 for a stage that failed, 0 otherwise
Failed(b) == IF b THEN 1 ELSE 0

\* C31: after an evaluation by apply_filters of a token with a valid address
\* each counter of filter_stats has grown by 1 if its stage failed in the
\* evaluation and by 0 otherwise, and a counter decreases only when
\* reset_filter_statistics sets all four to 0
C31_AttributableRejections ==
  /\ [](af.pc = "done" /\ ValidAddress /\ af.verdict # "raised" =>
          /\ filter_stats.liquidity =
               af.stats0.liquidity + Failed(~basic_filter(token))
          /\ filter_stats.fdv = af.stats0.fdv + Failed(~fdv_filter(token))
          /\ filter_stats.rugcheck =
               af.stats0.rugcheck
                 + Failed(af.rug_score < config.RUGCHECK_MIN_SCORE)
          /\ filter_stats.holders =
               af.stats0.holders + Failed(~af.holder_pass))
  /\ [][(\E s \in DOMAIN filter_stats : filter_stats'[s] < filter_stats[s])
          => filter_stats' = NoStats /\ af.pc = "call"]_vars

\* a second evaluation ended: the holder check failed and is counted though
\* the score of RugCheck let the token pass, on top of an earlier count
C31_Witness ==
  /\ af.pc = "done"
  /\ af.evals = 1
  /\ af.stats0.holders = 1
  /\ ~af.holder_pass
  /\ af.verdict = "True"
  /\ ~config.SIMULATION_MODE_RELAXED_FILTERS
  /\ filter_stats.holders = 2

(***************************************************************************)
(* token_cache.py: bookkeeping of the evaluations                          *)
(***************************************************************************)
\* a call of update_check has written last_checked of record a (line 75) and
\* not yet retry_count (line 76)
MidUpdate(a) ==
  \E t \in Threads : th[t].pc = "uc_retry_count" /\ th[t].addr = a

Touched(k) == k \notin DOMAIN tokens' \/ tokens'[k] # tokens[k]

\* C33: update_check(a), promote_to_cache(a) and remove_token(a) leave the
\* record of every other address unchanged; no step but the removal changes
\* the address or first_seen of a record; and first_seen comes back unchanged
\* from a save_cache followed by load_cache
C33_Frame ==
  /\ [][\A k \in DOMAIN tokens :
          /\ Touched(k) =>
               \E t \in Threads :
                 /\ th[t].addr = k
                 /\ th[t].op \in {"update_check", "promote_to_cache",
                                  "remove_token"}
          /\ k \in DOMAIN tokens' =>
               /\ tokens'[k].address = tokens[k].address
               /\ tokens'[k].first_seen = tokens[k].first_seen]_vars
  /\ [](\A clock \in TimePoints : clock >= now =>
          \A k \in DOMAIN tokens :
            /\ k \in DOMAIN load_cache(dump_cache(tokens), clock)
            /\ load_cache(dump_cache(tokens), clock)[k].first_seen =
                 tokens[k].first_seen)

\* promote_to_cache has changed one of two records, first seen at
\* different times
C33_Witness ==
  /\ DOMAIN tokens = Addresses
  /\ tokens["a1"].promoted /\ ~tokens["a2"].promoted
  /\ tokens["a1"].first_seen # tokens["a2"].first_seen
  /\ \E t \in Threads :
       /\ th[t].op = "promote_to_cache" /\ th[t].addr = "a1"
       /\ th[t].pc = "save_cache"

(***************************************************************************)
(* order_routing.py: OrderRouter.execute_swap_with_retry                   *)
(***************************************************************************)
\* largest max_retries a caller passes in the model
MaxRetries == 3
\* config.get("MAX_SLIPPAGE", 0.03), in units of 0.001 %
MaxSlippage == 3000
\* self.max_slippage * 1.5
SlippageCap == (MaxSlippage * 15) \div 10
\* the slippage argument: None (written 0), 2.5 % and 5 %
Slippages == {0, 2500, 5000}

\* line 306: min(slippage * 1.2, self.max_slippage * 1.5)
RaisedSlippage(slippage) == Min((slippage * 12) \div 10, SlippageCap)

\* a caller starts execute_swap_with_retry (line 275: retries = 0)
SwapCall ==
  /\ sw.pc = "idle"
  /\ \E m \in 0..MaxRetries, s \in Slippages :
       sw' = [SwStart EXCEPT !.pc = "route", !.max_retries = m,
                             !.slippage = s]
  /\ UNCHANGED <<batch, ml, tm, rd, ds, pt, st>>
  /\ UNCHANGED cacheVars
  /\ UNCHANGED filterVars

\* lines 277-285: while retries <= max_retries, get_best_swap_route with the
\* current slippage (self.max_slippage when it is None); without a route the
\* call returns "No valid route found"
GetBestSwapRoute ==
  /\ sw.pc = "route"
  /\ sw.retries <= sw.max_retries
  /\ \E found \in BOOLEAN :
       sw' = [sw EXCEPT
                !.used = @ \cup {IF sw.slippage = 0 THEN MaxSlippage
                                 ELSE sw.slippage},
                !.pc = IF found THEN "swap" ELSE "done",
                !.result = IF found THEN @ ELSE "no_route"]
  /\ UNCHANGED <<batch, ml, tm, rd, ds, pt, st>>
  /\ UNCHANGED cacheVars
  /\ UNCHANGED filterVars

\* lines 287-308: execute_swap; a success is returned; a failure adds one to
\* retries and, while retries <= max_retries, sleeps, raises the slippage and
\* loops; otherwise the last result is returned
ExecuteSwap ==
  /\ sw.pc = "swap"
  /\ \E success \in BOOLEAN :
       sw' = IF success
             THEN [sw EXCEPT !.pc = "done", !.attempts = @ + 1,
                             !.result = "success", !.of = sw.attempts + 1]
             ELSE IF sw.retries + 1 <= sw.max_retries
             THEN [sw EXCEPT !.pc = "route", !.attempts = @ + 1,
                             !.retries = @ + 1, !.last = sw.attempts + 1,
                             !.slippage = IF @ # 0 THEN RaisedSlippage(@)
                                          ELSE @]
             ELSE [sw EXCEPT !.pc = "done", !.attempts = @ + 1,
                             !.retries = @ + 1, !.last = sw.attempts + 1,
                             !.result = "failed", !.of = sw.attempts + 1]
  /\ UNCHANGED <<batch, ml, tm, rd, ds, pt, st>>
  /\ UNCHANGED cacheVars
  /\ UNCHANGED filterVars

NextSwap == SwapCall \/ GetBestSwapRoute \/ ExecuteSwap

InitSwap == CacheIdle /\ FilterIdle /\ DriverIdle

SpecSwap == InitSwap /\ [][NextSwap]_vars

\* C34: execute_swap_with_retry makes at most max_retries swap attempts,
\* returns the first success without another attempt, otherwise returns the
\* result of the last failed attempt, and never uses a slippage above
\* 1.5 * max_slippage
C34_SwapRetryBudget ==
  /\ sw.attempts <= sw.max_retries
  /\ \A s \in sw.used : s <= SlippageCap
  /\ sw.result = "success" => sw.pc = "done" /\ sw.of = sw.attempts
  /\ sw.pc = "done" /\ sw.result = "failed" =>
       sw.of = sw.last /\ sw.last = sw.attempts

(***************************************************************************)
(* data_sources.py: DataSource.get_new_tokens_multi_source                 *)
(***************************************************************************)
\* MAX_TOKENS_PER_SCAN in the model
MaxTokensPerScan == 2
\* tokens the sources return together in one scan, at most
MaxScanLen == 3
\* calls of get_new_tokens_multi_source
MaxScans == 2

\* what the sources find: a token is an address with a liquidity
FoundTokens == [address : {"t1", "t2", "t3"}, liquidity_usd : {1, 2}]
Scans == UNION {[1..n -> FoundTokens] : n \in 0..MaxScanLen}

\* the addresses of a list of tokens
AddressesOf(toks) == {toks[i].address : i \in 1..Len(toks)}

\* the filter that forgets last_processed_tokens
RECURSIVE FilterNew_IgnoresProcessed(_, _, _)
FilterNew_IgnoresProcessed(all_tokens, processed, got) ==
  IF all_tokens = <<>> THEN <<>>
  ELSE LET item == Head(all_tokens)
       IN  IF item.address \notin got
           THEN <<item>> \o FilterNew_IgnoresProcessed(
                               Tail(all_tokens), processed,
                               got \cup {item.address})
           ELSE FilterNew_IgnoresProcessed(Tail(all_tokens), processed, got)

\* lines 205-211: the tokens whose address is neither in
\* last_processed_tokens nor already kept in this scan
RECURSIVE FilterNew(_, _, _)
FilterNew(all_tokens, processed, got) ==
  IF all_tokens = <<>> THEN <<>>
  ELSE LET item == Head(all_tokens)
       IN  IF item.address \notin processed /\ item.address \notin got
           THEN <<item>> \o FilterNew(Tail(all_tokens), processed,
                                       got \cup {item.address})
           ELSE FilterNew(Tail(all_tokens), processed, got)

\* list.sort(key=liquidity_usd, reverse=True): descending and stable
RECURSIVE SortByLiquidity(_)
SortByLiquidity(toks) ==
  IF toks = <<>> THEN <<>>
  ELSE LET best == CHOOSE i \in 1..Len(toks) :
                     /\ \A j \in 1..Len(toks) :
                          toks[j].liquidity_usd <= toks[i].liquidity_usd
                     /\ \A j \in 1..(i - 1) :
                          toks[j].liquidity_usd < toks[i].liquidity_usd
           rest == [j \in 1..(Len(toks) - 1) |->
                      IF j < best THEN toks[j] ELSE toks[j + 1]]
       IN  <<toks[best]>> \o SortByLiquidity(rest)

\* lines 217-220: no more than max_tokens_per_scan, the most liquid first
Limited(new_tokens) ==
  IF Len(new_tokens) > MaxTokensPerScan
  THEN SubSeq(SortByLiquidity(new_tokens), 1, MaxTokensPerScan)
  ELSE new_tokens

\* get_new_tokens_multi_source, lines 196-223, on what the sources found
GetNewTokens ==
  /\ ds.calls < MaxScans
  /\ \E all_tokens \in Scans :
       LET new_tokens == FilterNew(all_tokens, ds.last_processed_tokens, {})
       IN  ds' = [last_processed_tokens |->
                    ds.last_processed_tokens \cup AddressesOf(new_tokens),
                  scan |-> all_tokens,
                  returned |-> Limited(new_tokens),
                  before |-> ds.before \cup AddressesOf(ds.returned),
                  calls |-> ds.calls + 1]
  /\ UNCHANGED <<batch, ml, tm, rd, sw, pt, st>>
  /\ UNCHANGED cacheVars
  /\ UNCHANGED filterVars

NextSource == GetNewTokens

InitSource == CacheIdle /\ FilterIdle /\ DriverIdle

SpecSource == InitSource /\ [][NextSource]_vars

\* C35: over the calls of get_new_tokens_multi_source no address is returned
\* more than once, neither twice in one list nor in the lists of two calls
C35_DiscoveryDedupe ==
  /\ \A i, j \in 1..Len(ds.returned) :
       i # j => ds.returned[i].address # ds.returned[j].address
  /\ AddressesOf(ds.returned) \cap ds.before = {}

\* the second scan found twice an address it returns and found again an
\* address an earlier call had returned
C35_Witness ==
  /\ ds.calls = 2
  /\ AddressesOf(ds.scan) \cap ds.before # {}
  /\ \E i, j \in 1..Len(ds.scan) :
       /\ i # j /\ ds.scan[i].address = ds.scan[j].address
       /\ ds.scan[i].address \in AddressesOf(ds.returned)

\* C36: every address recorded in last_processed_tokens has been returned to
\* the caller, by this call or an earlier one
C36_NoTokenLost ==
  ds.last_processed_tokens \subseteq AddressesOf(ds.returned) \cup ds.before

(***************************************************************************)
(* PositionTracker: track and check_positions                              *)
(***************************************************************************)
\* Prices are in percent of the buy price; 0 is "no price".
BuyPrice == 100
StopLossPct == 50
TakeProfitPct == 100
TrailingStopPct == 20
TrailingGainPct == 50
Prices == {0, 50, 100, 150, 190, 200}

\* the keys of tracked_positions
Tracked(tp) == {tp[k].address : k \in 1..Len(tp)}

\* tracked_positions[a] = pos: an existing key keeps its place
PutPosition(tp, a, pos) ==
  IF a \in Tracked(tp)
  THEN [k \in 1..Len(tp) |-> IF tp[k].address = a THEN pos ELSE tp[k]]
  ELSE Append(tp, pos)

\* del tracked_positions[a]
DelPosition(tp, a) == SelectSeq(tp, LAMBDA pos : pos.address # a)

\* track: a new record whose peak is the buy price; a record re-created while
\* check_positions holds the old one is no longer the one the loop updates
TrackedAfter(a) ==
  [pt EXCEPT
     !.tracked_positions =
        PutPosition(@, a, [address |-> a, peak_price |-> BuyPrice]),
     !.replaced = IF pt.pc = "idle" THEN @ ELSE @ \cup {a}]

Track(a) ==
  /\ pt' = TrackedAfter(a)
  /\ UNCHANGED <<batch, ml, tm, rd, sw, ds, st>>
  /\ UNCHANGED cacheVars /\ UNCHANGED filterVars

\* the sell conditions of check_positions, in the order the code tests them
SellReason(price, peak_price, late) ==
  LET pnl_pct == ((price - BuyPrice) * 100) \div BuyPrice IN
  IF pnl_pct >= TakeProfitPct THEN "Take Profit"
  ELSE IF /\ pnl_pct >= TrailingGainPct
          /\ price * 100 < peak_price * (100 - TrailingStopPct)
       THEN "Trailing Stop"
  ELSE IF pnl_pct <= 0 - StopLossPct THEN "Stop Loss"
  ELSE IF late THEN "Max Hold Time"
  ELSE "none"

\* the loop moves to the next item of the list, or check_positions returns
NextItem(p) ==
  IF p.i < Len(p.items)
  THEN [p EXCEPT !.pc = "price", !.i = @ + 1]
  ELSE [p EXCEPT !.pc = "idle", !.items = <<>>, !.i = 1, !.replaced = {}]

\* check_positions is entered: the loop runs over a copy of the items
CheckPositions ==
  /\ pt.pc = "idle"
  /\ pt' = IF pt.tracked_positions = <<>>
           THEN pt
           ELSE [pt EXCEPT !.pc = "price", !.items = pt.tracked_positions,
                           !.i = 1, !.replaced = {}]
  /\ UNCHANGED <<batch, ml, tm, rd, sw, ds, st>>
  /\ UNCHANGED cacheVars /\ UNCHANGED filterVars

\* get_live_token_price has answered: the peak is updated and the sell
\* conditions are tested
CheckPrice ==
  /\ pt.pc = "price"
  /\ \E price \in Prices, late \in BOOLEAN :
       LET pos == pt.items[pt.i]
           peak_price == IF price > pos.peak_price THEN price
                         ELSE pos.peak_price
           updated ==
             IF pos.address \in pt.replaced \/ pos.address \notin Tracked(pt.tracked_positions)
             THEN pt.tracked_positions
             ELSE PutPosition(pt.tracked_positions, pos.address,
                              [pos EXCEPT !.peak_price = peak_price])
       IN IF price = 0
          THEN pt' = NextItem(pt)
          ELSE IF SellReason(price, peak_price, late) = "none"
          THEN pt' = NextItem([pt EXCEPT !.tracked_positions = updated])
          ELSE pt' = [pt EXCEPT !.tracked_positions = updated,
                                !.pc = "sell", !.price = price]
  /\ UNCHANGED <<batch, ml, tm, rd, sw, ds, st>>
  /\ UNCHANGED cacheVars /\ UNCHANGED filterVars

\* the trader's sell_token has answered
SellReturn ==
  /\ pt.pc = "sell"
  /\ \E success \in BOOLEAN :
       LET a == pt.items[pt.i].address IN
       pt' = NextItem([pt EXCEPT
               !.last = [address |-> a, success |-> success],
               !.tracked_positions = DelPosition(@, a)])
  /\ UNCHANGED <<batch, ml, tm, rd, sw, ds, st>>
  /\ UNCHANGED cacheVars /\ UNCHANGED filterVars

NextTracker ==
  \/ \E a \in Positions : Track(a)
  \/ CheckPositions
  \/ CheckPrice
  \/ SellReturn

InitTracker ==
  /\ CacheIdle
  /\ FilterIdle
  /\ DriverIdle

SpecTracker == InitTracker /\ [][NextTracker]_vars

\* C37: check_positions removes an address from tracked_positions only when
\* sell_token for that address reported success, and a position whose sell
\* failed is still tracked when the loop moves on.
C37_DroppedOnlyWhenSold ==
  [][/\ \A a \in Positions :
          (/\ a \in Tracked(pt.tracked_positions)
           /\ a \notin Tracked(pt'.tracked_positions))
          => pt'.last = [address |-> a, success |-> TRUE]
     /\ (pt.pc = "sell" /\ pt'.pc # "sell" /\ ~pt'.last.success)
          => pt.items[pt.i].address \in Tracked(pt'.tracked_positions)]_vars

(***************************************************************************)
(* SimulatedTrader: buy_token and sell_token                               *)
(***************************************************************************)
MaxTrades == 4
Statuses == {"absent", "open", "closed"}

\* a buy that refuses only the positions still open
AlreadyInPosition_OpenOnly(positions, address) == positions[address] = "open"

\* `address in self.positions`: any record, open or closed
AlreadyInPosition(positions, address) == positions[address] # "absent"

\* `not pos or pos["status"] != "open"`
NoActivePosition(positions, address) == positions[address] # "open"

\* buy_token: refused for an address that has a record; otherwise the record
\* is created open, saved, and handed to the tracker if one is attached
BuyToken(a) ==
  /\ st.calls < MaxTrades
  /\ IF AlreadyInPosition(st.positions, a)
     THEN /\ st' = [st EXCEPT
                 !.last = [op |-> "buy_token", address |-> a,
                           success |-> FALSE],
                 !.calls = @ + 1]
          /\ pt' = pt
     ELSE /\ st' = [st EXCEPT
                 !.positions[a] = "open",
                 !.bought[a] = @ + 1,
                 !.last = [op |-> "buy_token", address |-> a,
                           success |-> TRUE],
                 !.calls = @ + 1]
          /\ pt' = IF st.tracker THEN TrackedAfter(a) ELSE pt
  /\ UNCHANGED <<batch, ml, tm, rd, sw, ds>>
  /\ UNCHANGED cacheVars /\ UNCHANGED filterVars

\* sell_token: refused unless the record exists and is open; otherwise the
\* record is closed and saved
SellToken(a) ==
  /\ st.calls < MaxTrades
  /\ IF NoActivePosition(st.positions, a)
     THEN st' = [st EXCEPT
            !.last = [op |-> "sell_token", address |-> a, success |-> FALSE],
            !.calls = @ + 1]
     ELSE st' = [st EXCEPT
            !.positions[a] = "closed",
            !.sold[a] = @ + 1,
            !.last = [op |-> "sell_token", address |-> a, success |-> TRUE],
            !.calls = @ + 1]
  /\ UNCHANGED <<batch, ml, tm, rd, sw, ds, pt>>
  /\ UNCHANGED cacheVars /\ UNCHANGED filterVars

NextSim ==
  \/ \E a \in Positions : BuyToken(a)
  \/ \E a \in Positions : SellToken(a)

\* a trader constructed over any positions file, with or without a tracker
InitSim ==
  /\ CacheIdle
  /\ FilterIdle
  /\ batch = <<>>
  /\ ml = MlStart
  /\ tm = TmStart
  /\ rd = RdStart
  /\ sw = SwStart
  /\ ds = DsStart
  /\ pt = PtStart
  /\ \E loaded \in [Positions -> Statuses], tracker \in BOOLEAN :
       st = [StStart EXCEPT !.positions = loaded, !.tracker = tracker]

SpecSim == InitSim /\ [][NextSim]_vars

\* C38: a position's status only moves absent -> open -> closed, buy_token
\* succeeds at most once per address, and sell_token succeeds at most once per
\* address and only on an open position.
C38_PositionLifecycle ==
  /\ [](\A a \in Positions : st.bought[a] <= 1 /\ st.sold[a] <= 1)
  /\ [][\A a \in Positions :
          /\ st.positions[a] # st'.positions[a]
               => \/ st.positions[a] = "absent" /\ st'.positions[a] = "open"
                  \/ st.positions[a] = "open" /\ st'.positions[a] = "closed"
          /\ st'.sold[a] > st.sold[a] => st.positions[a] = "open"
          /\ st'.bought[a] > st.bought[a] => st.positions[a] = "absent"]_vars

\* a position bought and sold by this trader, and a later buy of it refused
C38_Witness ==
  \E a \in Positions :
    /\ st.bought[a] = 1
    /\ st.sold[a] = 1
    /\ st.positions[a] = "closed"
    /\ st.last = [op |-> "buy_token", address |-> a, success |-> FALSE]

(***************************************************************************)
(* The range of rugcheck_score                                             *)
(***************************************************************************)
\* C39: for every answer of the RugCheck API, rugcheck_score returns an
\* integer in 0..100, and it returns 0 when the report says rugged, when the
\* report is not found (404) and when the request fails.
C39_ScoreRange ==
  /\ ~(af.pc = "done" /\ af.verdict = "raised" /\ rug_resp.kind = "not_object")
  /\ af.pc = "holders"
     => /\ af.rug_score \in 0..100
        /\ \/ rug_resp.rugged
           \/ rug_resp.kind \in {"404", "http_error", "timeout", "bad_json"}
           => af.rug_score = 0

(***************************************************************************)
(* TokenMonitor: what self.tokens retains                                  *)
(***************************************************************************)
\* C40: at the top of the loop of TokenMonitor.run, self.tokens holds only
\* addresses that are in pending_tokens, so neither a token that passed nor
\* one given up after its recheck window is retained, and every address of
\* pending_tokens is in self.tokens.
C40_TokensArePending ==
  tm.pc = "pick"
  => /\ \A a \in tm.tokens : InSeq(a, tm.pending)
     /\ \A a \in Mints : InSeq(a, tm.pending) => a \in tm.tokens

====
